---- MODULE Spec2Model ----
(***************************************************************************)
(* A model of dti/models.py: Neopet.fetch_assets_for (the items it builds), *)
(* Neopet.valid_poses, Neopet._render_items, Neopet._render_layers and     *)
(* Neopet.render.                                                          *)
(*                                                                         *)
(* Objects that the source compares with == or puts in a set (Zone, Item,  *)
(* AppearanceLayer) derive from mixins.Object, which compares and hashes   *)
(* by id.  The model therefore represents a Zone and an Item by its id.    *)
(***************************************************************************)
EXTENDS Integers, Sequences, FiniteSets, TLC

VARIABLES
    items,        \* Neopet.items: the item ids in equip order
    appearance,   \* Item.appearance of every item id in items
    petPose,      \* Neopet.pose
    validMask,    \* Neopet._valid_poses: the capability bitmask
    appearances,  \* Neopet.appearances: pose -> PetAppearance, for the poses on record
    pc,           \* position of the caller
    result,       \* the value the last call returned
    passes,       \* how many times _render_items has been called
    layers,       \* render: the list _render_layers returned
    fetched,      \* render: per layer, the state of its get_binary_data call
    arrived,      \* render: the layer positions in the order their fetches completed
    images,       \* render: the list asyncio.gather returned
    foreground,   \* render: the local variable foreground
    blended,      \* render: the alpha_composite calls made on the canvas, in order
    sink,         \* render: the file-like object fp
    error         \* render: the exception render raised, or "none"

neopetVars == <<items, appearance, petPose, validMask, appearances>>
renderVars == <<layers, fetched, arrived, images, foreground, blended, sink, error>>
vars == <<items, appearance, petPose, validMask, appearances, pc, result, passes,
          layers, fetched, arrived, images, foreground, blended, sink, error>>

----------------------------------------------------------------------------
(* Bounds of the model *)

NumZones == 3
MaxItems == 3
MaxItemLayers == 2
MaxRestricted == 1
MaxPetLayers == 2
MaxWornLayers == 1
MaxRenderItems == 1

----------------------------------------------------------------------------
(* Zones *)

ZoneIds == 1..NumZones

\* Zone.depth of the zones the data service knows.  Zones 1 and 3 (every odd
\* zone) share a depth; zone 2 is painted above both.
ZoneDepth(z) == (z + 1) % 2

\* mixins.Object.__eq__: two objects are equal when their ids are.
ObjectEq(a, b) == a = b

----------------------------------------------------------------------------
(* Lists *)

ToSet(s) == {s[i] : i \in 1..Len(s)}

\* Python's `x in list`
Contains(s, x) == \E i \in 1..Len(s) : ObjectEq(s[i], x)

\* Python's list.remove(x): drops the first element equal to x
ListRemove(s, x) ==
    LET first == CHOOSE i \in 1..Len(s) :
                    /\ ObjectEq(s[i], x)
                    /\ \A j \in 1..(i - 1) : ~ObjectEq(s[j], x)
    IN  [k \in 1..(Len(s) - 1) |-> IF k < first THEN s[k] ELSE s[k + 1]]

\* the zones of a set, listed in ascending id
RECURSIVE SetToSeq(_)
SetToSeq(S) ==
    IF S = {} THEN <<>>
    ELSE LET m == CHOOSE x \in S : \A y \in S : x <= y
         IN  <<m>> \o SetToSeq(S \ {m})

\* all sequences over S of length at most n without a repeated element
SeqsUpTo(S, n) ==
    UNION {{s \in [1..k -> S] : \A i, j \in 1..k : i # j => s[i] # s[j]} : k \in 0..n}

----------------------------------------------------------------------------
(* Appearances *)

\* AppearanceLayer: id and zone.  owner 0 is the pet appearance, owner i > 0
\* the item with id i; ids are unique across all layers.
Layer(owner, idx, z) == [id |-> owner * 10 + idx, owner |-> owner, zone |-> z]

MkLayers(owner, zs) == [k \in 1..Len(zs) |-> Layer(owner, k, zs[k])]

\* ItemAppearance.__init__ / PetAppearance.__init__
MkAppearance(owner, zs, rz) == [layers |-> MkLayers(owner, zs), restricted_zones |-> rz]

RestrictedLists ==
    {SetToSeq(R) : R \in {R \in SUBSET ZoneIds : Cardinality(R) <= MaxRestricted}}

\* Item.appearance of an item whose appearanceOn holds no data: None
NoItemAppearance == [none |-> TRUE]

\* ItemAppearance.occupies
Occupies(app) == [k \in 1..Len(app.layers) |-> app.layers[k].zone]

----------------------------------------------------------------------------
(* Neopet._render_items *)

\* Conflict with the first intersection forgotten
ConflictOneSided(a, b) ==
    ToSet(Occupies(b)) \cap ToSet(Occupies(a) \o a.restricted_zones) # {}

\* Conflict with the first test negated (`if not intersect_1 or intersect_2`)
ConflictNegated(a, b) ==
    LET intersect_1 == ToSet(Occupies(a)) \cap ToSet(Occupies(b) \o b.restricted_zones)
        intersect_2 == ToSet(Occupies(b)) \cap ToSet(Occupies(a) \o a.restricted_zones)
    IN  intersect_1 = {} \/ intersect_2 # {}

\* Conflict on the occupied zones alone, the restricted zones left out
ConflictOccupiedOnly(a, b) ==
    ToSet(Occupies(a)) \cap ToSet(Occupies(b)) # {}

\* lines 403-410: the two intersections
Conflict(a, b) ==
    LET intersect_1 == ToSet(Occupies(a)) \cap ToSet(Occupies(b) \o b.restricted_zones)
        intersect_2 == ToSet(Occupies(b)) \cap ToSet(Occupies(a) \o a.restricted_zones)
    IN  intersect_1 # {} \/ intersect_2 # {}

\* the inner loop written as `for temp in temp_items`: removing while iterating
\* the same list skips the element behind every removed one
RECURSIVE InnerScanWhileRemoving(_, _, _, _)
InnerScanWhileRemoving(its, item, j, temp_items) ==
    IF j > Len(temp_items) THEN [error |-> "none", temp_items |-> temp_items]
    ELSE LET temp == temp_items[j] IN
         IF ~ObjectEq(item, temp) /\ Conflict(appearance[item], appearance[temp])
         THEN InnerScanWhileRemoving(its, item, j + 1, ListRemove(temp_items, temp))
         ELSE InnerScanWhileRemoving(its, item, j + 1, temp_items)

\* the inner loop `for temp in self.items`, from position j on.  error is the
\* exception the loop raises, or "none"; lines 403-408 read .occupies of
\* item.appearance and temp.appearance, which None does not have
RECURSIVE InnerScan(_, _, _, _)
InnerScan(its, item, j, temp_items) ==
    IF j > Len(its) THEN [error |-> "none", temp_items |-> temp_items]
    ELSE LET temp == its[j] IN
         IF ObjectEq(item, temp) THEN InnerScan(its, item, j + 1, temp_items)
         ELSE IF ~Contains(temp_items, temp) THEN InnerScan(its, item, j + 1, temp_items)
         ELSE IF appearance[item] = NoItemAppearance \/ appearance[temp] = NoItemAppearance
              THEN [error |-> "AttributeError", temp_items |-> temp_items]
         ELSE IF Conflict(appearance[item], appearance[temp])
              THEN InnerScan(its, item, j + 1, ListRemove(temp_items, temp))
              ELSE InnerScan(its, item, j + 1, temp_items)

\* the outer loop `for item in self.items`, from position i on
RECURSIVE OuterScan(_, _, _)
OuterScan(its, i, temp_items) ==
    IF i > Len(its) THEN [error |-> "none", temp_items |-> temp_items]
    ELSE LET scanned == InnerScan(its, its[i], 1, temp_items)
         IN  IF scanned.error # "none" THEN scanned
             ELSE OuterScan(its, i + 1, Append(scanned.temp_items, its[i]))

\* the exception Neopet._render_items raises, or "none"
RenderItemsError(its) == OuterScan(its, 1, <<>>).error

\* the list Neopet._render_items returns
RenderItems(its) == OuterScan(its, 1, <<>>).temp_items

----------------------------------------------------------------------------
(* Poses: Neopet.check, Neopet.valid_poses, Neopet.get_pet_appearance *)

\* enums.PetPose: one bit per pose
HAPPY_MASC == 1
SAD_MASC == 2
SICK_MASC == 4
HAPPY_FEM == 8
SAD_FEM == 16
SICK_FEM == 32
UNCONVERTED == 64
UNKNOWN == 128

PetPoses ==
    {HAPPY_MASC, SAD_MASC, SICK_MASC, HAPPY_FEM, SAD_FEM, SICK_FEM, UNCONVERTED, UNKNOWN}

Masks == 0..(2 * UNKNOWN - 1)

\* constants.CLOSEST_POSES_IN_ORDER
CLOSEST_POSES_IN_ORDER(p) ==
    CASE p = HAPPY_MASC ->
           <<HAPPY_MASC, HAPPY_FEM, SAD_MASC, SAD_FEM, SICK_MASC, SICK_FEM, UNCONVERTED, UNKNOWN>>
      [] p = HAPPY_FEM ->
           <<HAPPY_FEM, HAPPY_MASC, SAD_FEM, SAD_MASC, SICK_FEM, SICK_MASC, UNCONVERTED, UNKNOWN>>
      [] p = SAD_MASC ->
           <<SAD_MASC, SAD_FEM, HAPPY_MASC, HAPPY_FEM, SICK_MASC, SICK_FEM, UNCONVERTED, UNKNOWN>>
      [] p = SAD_FEM ->
           <<SAD_FEM, SAD_MASC, HAPPY_FEM, HAPPY_MASC, SICK_FEM, SICK_MASC, UNCONVERTED, UNKNOWN>>
      [] p = SICK_MASC ->
           <<SICK_MASC, SICK_FEM, SAD_MASC, SAD_FEM, HAPPY_MASC, HAPPY_FEM, UNCONVERTED, UNKNOWN>>
      [] p = SICK_FEM ->
           <<SICK_FEM, SICK_MASC, SAD_FEM, SAD_MASC, HAPPY_FEM, HAPPY_MASC, UNCONVERTED, UNKNOWN>>
      [] p = UNCONVERTED ->
           <<UNCONVERTED, HAPPY_FEM, HAPPY_MASC, SAD_FEM, SAD_MASC, SICK_FEM, SICK_MASC, UNKNOWN>>
      [] OTHER ->
           <<HAPPY_FEM, HAPPY_MASC, SAD_FEM, SAD_MASC, SICK_FEM, SICK_MASC, UNCONVERTED, UNKNOWN>>

\* Python's & on non-negative integers
RECURSIVE BitAnd(_, _)
BitAnd(a, b) ==
    IF a = 0 \/ b = 0 THEN 0
    ELSE (a % 2) * (b % 2) + 2 * BitAnd(a \div 2, b \div 2)

\* check with the operands of == confused
CheckAgainstMask(mask, pose) == BitAnd(mask, pose) = mask

\* Neopet.check
Check(mask, pose) == BitAnd(mask, pose) = pose

\* the absent optional pose: falsy, and no member of PetPose
None == 0

\* the comprehension [p for p in candidates if self.check(pose=p)]
RECURSIVE CheckedPoses(_, _)
CheckedPoses(mask, candidates) ==
    IF candidates = <<>> THEN <<>>
    ELSE (IF Check(mask, Head(candidates)) THEN <<Head(candidates)>> ELSE <<>>)
         \o CheckedPoses(mask, Tail(candidates))

\* Neopet.valid_poses
ValidPoses(mask, self_pose, override_pose) ==
    LET pose == IF override_pose # None THEN override_pose ELSE self_pose
    IN  CheckedPoses(mask, CLOSEST_POSES_IN_ORDER(pose))

\* what get_pet_appearance returns for a pose that has no appearance
NoAppearance == [pose |-> None, layers |-> <<>>, restricted_zones |-> <<>>]

\* a lookup that settles for the first appearance on record, whatever its pose
GetAnyPetAppearance(apps, pose) ==
    IF apps = <<>> THEN NoAppearance ELSE apps[1]

\* Neopet.get_pet_appearance: apps is the list Neopet.appearances; the first
\* appearance of the pose, or None
GetPetAppearance(apps, pose) ==
    IF \E k \in 1..Len(apps) : apps[k].pose = pose
    THEN apps[CHOOSE k \in 1..Len(apps) :
                 /\ apps[k].pose = pose
                 /\ \A j \in 1..(k - 1) : apps[j].pose # pose]
    ELSE NoAppearance

----------------------------------------------------------------------------
(* Neopet._render_layers *)

\* an insertion that is not stable: x goes in front of the elements of its depth
RECURSIVE InsertInFront(_, _)
InsertInFront(sorted, x) ==
    IF sorted = <<>> THEN <<x>>
    ELSE IF ZoneDepth(Head(sorted).zone) < ZoneDepth(x.zone)
         THEN <<Head(sorted)>> \o InsertInFront(Tail(sorted), x)
         ELSE <<x>> \o sorted

\* Python's sorted(s, key=lambda layer: layer.zone.depth): a stable sort.
\* Insert places x behind every element whose key is not larger.
RECURSIVE Insert(_, _)
Insert(sorted, x) ==
    IF sorted = <<>> THEN <<x>>
    ELSE IF ZoneDepth(Head(sorted).zone) <= ZoneDepth(x.zone)
         THEN <<Head(sorted)>> \o Insert(Tail(sorted), x)
         ELSE <<x>> \o sorted

RECURSIVE SortedByDepth(_)
SortedByDepth(s) ==
    IF s = <<>> THEN <<>>
    ELSE Insert(SortedByDepth(SubSeq(s, 1, Len(s) - 1)), s[Len(s)])

\* lines 437-443: the loop over self._render_items(); acc is
\* [all_layers, item_restricted_zones]
RECURSIVE CollectItems(_, _)
CollectItems(worn, acc) ==
    IF worn = <<>> THEN acc
    ELSE CollectItems(Tail(worn),
                      [all_layers |-> acc.all_layers \o appearance[Head(worn)].layers,
                       item_restricted_zones |->
                           acc.item_restricted_zones \o appearance[Head(worn)].restricted_zones])

\* the filter applied to the items' layers only
RECURSIVE VisibleItemLayers(_, _)
VisibleItemLayers(all_layers, all_restricted_zones) ==
    IF all_layers = <<>> THEN <<>>
    ELSE (IF Head(all_layers).owner = 0 \/ Head(all_layers).zone \notin all_restricted_zones
          THEN <<Head(all_layers)>> ELSE <<>>)
         \o VisibleItemLayers(Tail(all_layers), all_restricted_zones)

\* lines 449-451: filter(lambda layer: layer.zone not in all_restricted_zones, all_layers)
RECURSIVE VisibleLayers(_, _)
VisibleLayers(all_layers, all_restricted_zones) ==
    IF all_layers = <<>> THEN <<>>
    ELSE (IF Head(all_layers).zone \notin all_restricted_zones
          THEN <<Head(all_layers)>> ELSE <<>>)
         \o VisibleLayers(Tail(all_layers), all_restricted_zones)

\* Neopet._render_layers.  error: the exception it raises, or "none"; layers:
\* the list it returns; pet_appearance and worn: its locals pet_appearance and
\* the value of self._render_items() its loop runs over
RenderLayers(override_pose) ==
    LET valid_poses == ValidPoses(validMask, petPose, override_pose)
        raised == [error |-> "MissingPetAppearance", layers |-> <<>>,
                   pet_appearance |-> NoAppearance, worn |-> <<>>]
    IN  IF Len(valid_poses) = 0 THEN raised
        ELSE LET pet_appearance == GetPetAppearance(appearances, valid_poses[1])
             IN  IF pet_appearance = NoAppearance THEN raised
                 ELSE LET worn == RenderItems(items)
                          items_error == RenderItemsError(items)
                      IN
                      IF items_error # "none" THEN [raised EXCEPT !.error = items_error]
                      ELSE IF \E k \in 1..Len(worn) : appearance[worn[k]] = NoItemAppearance
                      THEN \* line 441 reads .layers of item.appearance
                           [raised EXCEPT !.error = "AttributeError"]
                      ELSE
                      LET acc == CollectItems(worn,
                                              [all_layers |-> pet_appearance.layers,
                                               item_restricted_zones |-> <<>>])
                          all_restricted_zones ==
                              ToSet(acc.item_restricted_zones \o pet_appearance.restricted_zones)
                      IN  [error |-> "none",
                           layers |-> SortedByDepth(VisibleLayers(acc.all_layers,
                                                                  all_restricted_zones)),
                           pet_appearance |-> pet_appearance,
                           worn |-> worn]

----------------------------------------------------------------------------
(* Neopet.render *)

\* what get_binary_data can return for a layer's image_url: bytes that do not
\* decode, or an image of mode "1", "RGBA" or another mode ("RGB")
ImageKinds == {"corrupt", "1", "RGBA", "RGB"}

Pending == [state |-> "pending", url |-> 0, kind |-> "none"]
Failed == [state |-> "failed", url |-> 0, kind |-> "none"]
\* the bytes behind the image_url of layer l
Bytes(l, kind) == [state |-> "done", url |-> l.id, kind |-> kind]

Unbound == [mode |-> "unbound", layer |-> 0, url |-> 0]

\* the list gather would return if it listed results as they arrive
GatheredAsArrived(ls, f, arr) == [k \in 1..Len(ls) |-> f[arr[k]]]

\* line 480: asyncio.gather returns the results in the order of the awaitables
\* it was given, one per layer
Gathered(ls, f, arr) == [k \in 1..Len(ls) |-> f[k]]

\* gather called with return_exceptions=True: an exception is listed among
\* the results and never raised
GatherCollectsExceptions(f) == FALSE

\* line 480: asyncio.gather raises into its awaiter as soon as one of the
\* awaitables has raised
GatherRaised(f) == \E k \in 1..Len(f) : f[k].state = "failed"

\* lines 493-497, the finally clause: fg is foreground as the clause finds it
FinallyClause(fg, canvas) ==
    IF fg.mode = "1" THEN [continued |-> TRUE, foreground |-> fg, canvas |-> canvas]
    ELSE [continued |-> FALSE,
          foreground |-> [fg EXCEPT !.mode = "RGBA"],
          canvas |-> Append(canvas, [layer |-> fg.layer, url |-> fg.url])]

\* lines 484-497: the loop over zip(layers, images) from position k on
RECURSIVE BlendLoop(_, _, _, _, _)
BlendLoop(ls, imgs, k, fg, canvas) ==
    IF k > Len(ls) THEN [error |-> "none", foreground |-> fg, canvas |-> canvas]
    ELSE IF imgs[k].kind # "corrupt"
         THEN \* Image.open returned: foreground is bound to the new image
              LET opened == [mode |-> imgs[k].kind, layer |-> ls[k].id, url |-> imgs[k].url]
                  fin == FinallyClause(opened, canvas)
              IN  BlendLoop(ls, imgs, k + 1, fin.foreground, fin.canvas)
         ELSE \* Image.open raised: BrokenAssetImage is in flight while the
              \* finally clause runs on foreground as the last iteration left it
              IF fg = Unbound
              THEN [error |-> "UnboundLocalError", foreground |-> fg, canvas |-> canvas]
              ELSE LET fin == FinallyClause(fg, canvas)
                   IN  IF fin.continued
                       THEN \* `continue` in a finally clause drops the exception
                            BlendLoop(ls, imgs, k + 1, fin.foreground, fin.canvas)
                       ELSE [error |-> "BrokenAssetImage",
                             foreground |-> fin.foreground, canvas |-> fin.canvas]

----------------------------------------------------------------------------
(* Inputs *)

\* Item lists up to renaming of the ids: the ids are numbered in the order of
\* their first occurrence.  An id may occur more than once.
ItemLists ==
    UNION {{s \in [1..n -> 1..n] :
              \A k \in 1..n : s[k] <= 1 + (IF k = 1 THEN 0
                                           ELSE CHOOSE m \in 1..n :
                                                  /\ \E j \in 1..(k - 1) : s[j] = m
                                                  /\ \A j \in 1..(k - 1) : s[j] <= m)}
           : n \in 0..MaxItems}

MaxId(s) == IF s = <<>> THEN 0 ELSE CHOOSE m \in ToSet(s) : \A x \in ToSet(s) : x <= m

\* the items of a Neopet: lists of at most n items, and for every id in the
\* list its appearance, of at most l layers
InitWardrobe(n, l) ==
    /\ items \in {s \in ItemLists : Len(s) <= n}
    /\ appearance \in {[i \in 1..MaxId(items) |->
                           MkAppearance(i, f[i][1], f[i][2])] :
                       f \in [1..MaxId(items) ->
                                SeqsUpTo(ZoneIds, l) \X RestrictedLists]}

PetAppearances(pose) ==
    {[pose |-> pose, layers |-> MkLayers(0, zs), restricted_zones |-> rz] :
        zs \in SeqsUpTo(ZoneIds, MaxPetLayers), rz \in RestrictedLists}

\* no render is under way
RenderIdle ==
    /\ layers = <<>>
    /\ fetched = <<>>
    /\ arrived = <<>>
    /\ images = <<>>
    /\ foreground = [mode |-> "unbound"]
    /\ blended = <<>>
    /\ sink = [written |-> FALSE, content |-> <<>>, seeks |-> 0]
    /\ error = "none"

----------------------------------------------------------------------------
(* Conflict resolution on its own: callers of Neopet._render_items *)

InitItems ==
    /\ InitWardrobe(MaxItems, MaxItemLayers)
    /\ petPose = HAPPY_MASC
    /\ validMask = 0
    /\ appearances = <<>>
    /\ pc = "ready"
    /\ result = <<>>
    /\ passes = 0
    /\ RenderIdle

\* a caller reads Neopet._render_items()
CallRenderItems ==
    /\ pc = "ready"
    /\ result' = RenderItems(items)
    /\ pc' = "resolved"
    /\ passes' = passes + 1
    /\ UNCHANGED <<neopetVars, renderVars>>

\* the caller resolves the returned list again: _render_items of a Neopet
\* built with items=result
CallRenderItemsAgain ==
    /\ pc = "resolved"
    /\ passes = 1
    /\ result' = RenderItems(result)
    /\ passes' = passes + 1
    /\ UNCHANGED <<neopetVars, pc, renderVars>>

NextItems == CallRenderItems \/ CallRenderItemsAgain

SpecItems == InitItems /\ [][NextItems]_vars

----------------------------------------------------------------------------
(* Properties of conflict resolution *)

\* the zone sets of section 4.2 of the design: occupied(i) and restricted(i)
Occupied(i) == {appearance[i].layers[k].zone : k \in 1..Len(appearance[i].layers)}
Restricted(i) == ToSet(appearance[i].restricted_zones)

\* conflict(i, t) of section 4.2
DesignConflict(i, t) ==
    \/ Occupied(i) \cap (Occupied(t) \cup Restricted(t)) # {}
    \/ Occupied(t) \cap (Occupied(i) \cup Restricted(i)) # {}

\* the accumulator pass of section 4.2: every accumulator member that conflicts
\* with the item is evicted (the item is never compared with itself), then the
\* item is appended
RECURSIVE AccumulatorPass(_, _)
AccumulatorPass(its, acc) ==
    IF its = <<>> THEN acc
    ELSE LET i == Head(its)
             kept == SelectSeq(acc, LAMBDA t : t = i \/ ~DesignConflict(i, t))
         IN  AccumulatorPass(Tail(its), Append(kept, i))

RECURSIVE IsSubsequence(_, _)
IsSubsequence(a, b) ==
    IF a = <<>> THEN TRUE
    ELSE IF b = <<>> THEN FALSE
    ELSE IF Head(a) = Head(b) THEN IsSubsequence(Tail(a), Tail(b))
    ELSE IsSubsequence(a, Tail(b))

Count(s, x) == Cardinality({k \in 1..Len(s) : s[k] = x})
Without(s, x) == SelectSeq(s, LAMBDA y : y # x)

\* result is what _render_items returned for items
Resolved == pc = "resolved" /\ passes = 1

\* C1: when item A precedes item B in the list (A is not equipped again behind
\* B) and their occupied zones share a zone, the resolved list does not
\* contain A; a two-item list of such items resolves to its second item,
\* whichever of the two items that is.
C1_LaterItemWins ==
    Resolved =>
        /\ \A i, j \in 1..Len(items) :
              ( /\ i < j
                /\ items[i] # items[j]
                /\ Occupied(items[i]) \cap Occupied(items[j]) # {}
                /\ \A k \in (j + 1)..Len(items) : items[k] # items[i] )
              => items[i] \notin ToSet(result)
        /\ ( /\ Len(items) = 2
             /\ items[1] # items[2]
             /\ Occupied(items[1]) \cap Occupied(items[2]) # {} )
           => result = <<items[2]>>

\* three items: the first and the third share a zone, the second stands apart
C1_Witness ==
    /\ Resolved
    /\ items = <<1, 2, 3>>
    /\ Occupied(1) \cap Occupied(3) # {}
    /\ ~DesignConflict(1, 2)
    /\ ~DesignConflict(2, 3)
    /\ result = <<2, 3>>

\* C5: _render_items returns the list of the accumulator pass of section 4.2,
\* and that list is a subsequence of the input (the survivors in input order).
C5_MatchesAccumulatorPass ==
    Resolved =>
        /\ result = AccumulatorPass(items, <<>>)
        /\ IsSubsequence(result, items)

\* a chain: the second item evicts the first, the third evicts the second, and
\* the first and third do not conflict
C5_Witness ==
    /\ Resolved
    /\ items = <<1, 2, 3>>
    /\ DesignConflict(1, 2)
    /\ DesignConflict(2, 3)
    /\ ~DesignConflict(1, 3)
    /\ result = <<3>>

\* C6: resolving the list that _render_items returned returns that same list.
C6_Idempotent == [][(passes = 1 /\ passes' = 2) => result' = result]_vars

\* the first pass evicted an item and kept two, and the list was resolved again
C6_Witness ==
    /\ passes = 2
    /\ items = <<1, 2, 3>>
    /\ Len(result) = 2

\* the items of the list other than e occupy none of the zones e restricts
RestrictsNoOther(e) ==
    \A t \in ToSet(items) \ {e} : Restricted(e) \cap Occupied(t) = {}

\* e is in the result as often as in the input, and the other items resolve
\* as they do without e
KeptAndHarmless(e) ==
    /\ Count(result, e) = Count(items, e)
    /\ Without(result, e) = RenderItems(Without(items, e))

\* C7 as stated: an item with no layers is kept and evicts nothing, whatever
\* zones it restricts.
C7_EmptyItemNeverConflicts ==
    Resolved =>
        \A e \in ToSet(items) : Occupied(e) = {} => KeptAndHarmless(e)

\* C7 amended: an item with no layers whose restricted zones are occupied by
\* no other item of the list is kept and evicts nothing.
C7_EmptyItemApart ==
    Resolved =>
        \A e \in ToSet(items) :
            (Occupied(e) = {} /\ RestrictsNoOther(e)) => KeptAndHarmless(e)

\* an item with no layers that restricts a zone stands between two items that
\* conflict with each other
C7_Witness ==
    /\ Resolved
    /\ items = <<1, 2, 3>>
    /\ Occupied(2) = {}
    /\ Restricted(2) # {}
    /\ RestrictsNoOther(2)
    /\ DesignConflict(1, 3)
    /\ result = <<2, 3>>

----------------------------------------------------------------------------
(* Layer ordering on its own: callers of Neopet._render_layers *)

InitLayers ==
    /\ InitWardrobe(MaxItems, MaxWornLayers)
    /\ petPose = HAPPY_MASC
    /\ validMask = HAPPY_MASC
    /\ appearances \in {<<a>> : a \in PetAppearances(HAPPY_MASC)}
    /\ pc = "ready"
    /\ result = <<>>
    /\ passes = 0
    /\ RenderIdle

CallRenderLayers ==
    /\ pc = "ready"
    /\ result' = RenderLayers(None)
    /\ pc' = "ordered"
    /\ UNCHANGED <<neopetVars, passes, renderVars>>

NextLayers == CallRenderLayers

SpecLayers == InitLayers /\ [][NextLayers]_vars

----------------------------------------------------------------------------
(* Properties of layer ordering *)

\* result is what _render_layers returned
Ordered == pc = "ordered" /\ result.error = "none"

Owners(ls) == {ls[k].owner : k \in 1..Len(ls)}

\* the scenario of C2: item 1 occupies Z1, item 2 occupies Z1 and restricts Z2,
\* item 3 occupies only Z2
Scenario(Z1, Z2) ==
    /\ Z1 # Z2
    /\ items = <<1, 2, 3>>
    /\ Occupied(1) = {Z1}
    /\ Occupied(2) = {Z1}
    /\ Restricted(2) = {Z2}
    /\ Occupied(3) = {Z2}

\* C2 as stated: in the scenario conflict resolution drops item 1 and keeps
\* items 2 and 3, and the layers returned come only from the pet appearance
\* and item 2.
C2_ItemTwoSurvives ==
    \A Z1, Z2 \in ZoneIds :
        (Ordered /\ Scenario(Z1, Z2)) =>
            /\ result.worn = <<2, 3>>
            /\ Owners(result.layers) \subseteq {0, 2}

\* C2 amended: in the scenario conflict resolution drops item 1 (item 2
\* occupies Z1) and then item 2 (item 3 occupies Z2, which item 2 restricts);
\* only item 3 is kept, and the layers returned come only from the pet
\* appearance and item 3.
C2_ItemThreeSurvives ==
    \A Z1, Z2 \in ZoneIds :
        (Ordered /\ Scenario(Z1, Z2)) =>
            /\ result.worn = <<3>>
            /\ Owners(result.layers) \subseteq {0, 3}

\* the scenario, with a layer of the pet and the layer of item 3 both returned
C2_Witness ==
    /\ Ordered
    /\ \E Z1, Z2 \in ZoneIds : Scenario(Z1, Z2)
    /\ Owners(result.layers) = {0, 3}

\* the union of the restricted zones of the pet appearance and of every
\* retained item
AllRestricted ==
    ToSet(result.pet_appearance.restricted_zones)
        \cup UNION {Restricted(result.worn[k]) : k \in 1..Len(result.worn)}

\* C8: no returned layer lies in a zone that the pet appearance or a retained
\* item restricts, whichever contributor the layer came from.
C8_NoRestrictedLayer ==
    Ordered => \A k \in 1..Len(result.layers) : result.layers[k].zone \notin AllRestricted

\* a pet layer is hidden by a retained item's restriction, a retained item's
\* layer by the pet's restriction, and some layer is returned
C8_Witness ==
    /\ Ordered
    /\ \E k \in 1..Len(result.pet_appearance.layers) :
          \E i \in ToSet(result.worn) :
              result.pet_appearance.layers[k].zone \in Restricted(i)
    /\ \E i \in ToSet(result.worn) :
          Occupied(i) \cap ToSet(result.pet_appearance.restricted_zones) # {}
    /\ result.layers # <<>>

\* the concatenation of section 4.3: the pet appearance's layers, then each
\* retained item's layers in retained-item order
RECURSIVE ItemLayers(_)
ItemLayers(worn) ==
    IF worn = <<>> THEN <<>> ELSE appearance[Head(worn)].layers \o ItemLayers(Tail(worn))

Concatenation == result.pet_appearance.layers \o ItemLayers(result.worn)

AtDepth(ls, d) == SelectSeq(ls, LAMBDA l : ZoneDepth(l.zone) = d)

\* C9: the returned layers are in non-decreasing zone depth, and the layers of
\* one depth stand in the order of the concatenation.
C9_StableByDepth ==
    Ordered =>
        /\ \A j, k \in 1..Len(result.layers) :
              j < k => ZoneDepth(result.layers[j].zone) <= ZoneDepth(result.layers[k].zone)
        /\ \A d \in {ZoneDepth(z) : z \in ZoneIds} :
              AtDepth(result.layers, d)
                  = AtDepth(SelectSeq(Concatenation, LAMBDA l : l \in ToSet(result.layers)), d)

\* the sort moved a layer: the concatenation was not in depth order, and two
\* retained items and the pet all have a layer at one depth
C9_Witness ==
    /\ Ordered
    /\ result.layers # SelectSeq(Concatenation, LAMBDA l : l \in ToSet(result.layers))
    /\ \E d \in {ZoneDepth(z) : z \in ZoneIds} :
          Cardinality(Owners(AtDepth(result.layers, d))) = 3

----------------------------------------------------------------------------
(* Pose resolution on its own: callers of Neopet.valid_poses *)

InitPoses ==
    /\ items = <<>>
    /\ appearance = <<>>
    /\ petPose \in PetPoses
    /\ validMask \in Masks
    /\ appearances = <<>>
    /\ pc = "ready"
    /\ result = <<>>
    /\ passes = 0
    /\ RenderIdle

CallValidPoses(override_pose) ==
    /\ pc = "ready"
    /\ result' = [override_pose |-> override_pose,
                  poses |-> ValidPoses(validMask, petPose, override_pose)]
    /\ pc' = "posed"
    /\ UNCHANGED <<neopetVars, passes, renderVars>>

NextPoses == \E override_pose \in PetPoses \cup {None} : CallValidPoses(override_pose)

SpecPoses == InitPoses /\ [][NextPoses]_vars

----------------------------------------------------------------------------
(* Properties of pose resolution *)

Bits == {HAPPY_MASC, SAD_MASC, SICK_MASC, HAPPY_FEM, SAD_FEM, SICK_FEM, UNCONVERTED, UNKNOWN}

HasBit(n, b) == (n \div b) % 2 = 1

\* (mask & p) == p: every bit of p is a bit of mask
Capable(mask, p) == \A b \in Bits : HasBit(p, b) => HasBit(mask, b)

DesiredPose == IF result.override_pose # None THEN result.override_pose ELSE petPose

\* C10: valid_poses returns the poses p of the desired pose's table entry with
\* (mask & p) == p, in the table's order, and the empty list when the mask
\* shares no bit with any pose of the entry.
C10_FiltersTheTableEntry ==
    pc = "posed" =>
        /\ result.poses
             = SelectSeq(CLOSEST_POSES_IN_ORDER(DesiredPose), LAMBDA p : Capable(validMask, p))
        /\ (\A k \in 1..Len(CLOSEST_POSES_IN_ORDER(DesiredPose)) :
               \A b \in Bits : ~(HasBit(CLOSEST_POSES_IN_ORDER(DesiredPose)[k], b)
                                 /\ HasBit(validMask, b)))
           => result.poses = <<>>

\* an override pose that is not capable: the list starts with a substitute
C10_Witness ==
    /\ pc = "posed"
    /\ result.override_pose = SAD_FEM
    /\ petPose = HAPPY_MASC
    /\ result.poses = <<SAD_MASC, HAPPY_FEM, UNKNOWN>>

----------------------------------------------------------------------------
(* Neopet.render, from the call to the written sink *)

RenderOverrides == {None, HAPPY_FEM}

Init ==
    /\ InitWardrobe(MaxRenderItems, MaxWornLayers)
    /\ petPose = HAPPY_MASC
    /\ validMask \in {0, HAPPY_FEM, HAPPY_MASC + HAPPY_FEM}
    /\ appearances \in {<<>>} \cup {<<a>> : a \in PetAppearances(HAPPY_MASC)
                                           \cup PetAppearances(HAPPY_FEM)}
    /\ pc = "ready"
    /\ result = <<>>
    /\ passes = 0
    /\ RenderIdle

\* lines 462-482: render up to its await of asyncio.gather
Render(override_pose) ==
    /\ pc = "ready"
    /\ LET r == RenderLayers(IF override_pose # None THEN override_pose ELSE petPose)
       IN  IF r.error # "none"
           THEN /\ pc' = "failed"
                /\ error' = r.error
                /\ UNCHANGED <<layers, fetched>>
           ELSE /\ pc' = "gathering"
                /\ layers' = r.layers
                /\ fetched' = [k \in 1..Len(r.layers) |-> Pending]
                /\ UNCHANGED error
    /\ UNCHANGED <<neopetVars, result, passes, arrived, images, foreground, blended, sink>>

\* a get_binary_data call returns; the other fetches of a failed gather run on
Fetching(k) ==
    /\ pc = "gathering" \/ (pc = "failed" /\ error = "AssetRetrievalFailure")
    /\ k \in 1..Len(layers)
    /\ fetched[k] = Pending

FetchComplete(k, kind) ==
    /\ Fetching(k)
    /\ fetched' = [fetched EXCEPT ![k] = Bytes(layers[k], kind)]
    /\ arrived' = Append(arrived, k)
    /\ UNCHANGED <<neopetVars, pc, result, passes, layers, images, foreground, blended,
                   sink, error>>

\* a get_binary_data call raises: gather raises it into render at once
FetchFail(k) ==
    /\ Fetching(k)
    /\ fetched' = [fetched EXCEPT ![k] = Failed]
    /\ pc' = IF GatherRaised(fetched') THEN "failed" ELSE pc
    /\ error' = IF GatherRaised(fetched') THEN "AssetRetrievalFailure" ELSE error
    /\ UNCHANGED <<neopetVars, result, passes, layers, arrived, images, foreground,
                   blended, sink>>

\* lines 480-500: every fetch has returned, gather returns, and render runs to
\* its end without another await
GatherReturn ==
    /\ pc = "gathering"
    /\ \A k \in 1..Len(layers) : fetched[k].state = "done"
    /\ images' = Gathered(layers, fetched, arrived)
    /\ LET r == BlendLoop(layers, images', 1, Unbound, <<>>)
       IN  /\ foreground' = r.foreground
           /\ blended' = r.canvas
           /\ IF r.error = "none"
              THEN /\ sink' = [written |-> TRUE, content |-> r.canvas, seeks |-> sink.seeks + 1]
                   /\ pc' = "done"
                   /\ UNCHANGED error
              ELSE /\ pc' = "failed"
                   /\ error' = r.error
                   /\ UNCHANGED sink
    /\ UNCHANGED <<neopetVars, result, passes, layers, fetched, arrived>>

Next ==
    \/ \E override_pose \in RenderOverrides : Render(override_pose)
    \/ \E k \in 1..(MaxPetLayers + MaxRenderItems * MaxWornLayers) :
          \E kind \in ImageKinds : FetchComplete(k, kind)
    \/ \E k \in 1..(MaxPetLayers + MaxRenderItems * MaxWornLayers) : FetchFail(k)
    \/ GatherReturn

Spec == Init /\ [][Next]_vars

----------------------------------------------------------------------------
(* Properties of render *)

\* C3: if the bytes fetched for some layer do not decode, render ends in
\* BrokenAssetImage and nothing is written to the sink, whatever the layers
\* before it (also when it is the first layer, or follows a skipped 1-bit
\* image).
C3_DecodeFailureIsFatal ==
    (\E k \in 1..Len(images) : images[k].kind = "corrupt") =>
        /\ pc = "failed"
        /\ error = "BrokenAssetImage"
        /\ ~sink.written

\* the position in the paint order of the layer with id
PaintPosition(id) == CHOOSE k \in 1..Len(layers) : layers[k].id = id

\* the alpha_composite calls a render of decodable images has to make: one per
\* layer whose image is not 1-bit, in paint order, with that layer's bytes
RECURSIVE BlendsDue(_)
BlendsDue(k) ==
    IF k > Len(layers) THEN <<>>
    ELSE (IF fetched[k].kind \in {"RGBA", "RGB"}
          THEN <<[layer |-> layers[k].id, url |-> layers[k].id]>> ELSE <<>>)
         \o BlendsDue(k + 1)

C11_FetchFailureFailsRender ==
    (\E k \in 1..Len(fetched) : fetched[k].state = "failed") =>
        /\ pc = "failed"
        /\ error = "AssetRetrievalFailure"
        /\ images = <<>>
        /\ blended = <<>>
        /\ foreground = [mode |-> "unbound"]
        /\ sink = [written |-> FALSE, content |-> <<>>, seeks |-> 0]

\* three layers: the second fetch failed, the two others completed with
\* decodable images, the last layer's first
C11_Witness ==
    /\ Len(layers) = 3
    /\ fetched[2].state = "failed"
    /\ fetched[1].kind = "RGBA"
    /\ fetched[3].kind = "RGB"
    /\ arrived = <<3, 1>>
    /\ pc = "failed"

\* the pose a render with the argument override_pose asks for
Desired(override_pose) == IF override_pose # None THEN override_pose ELSE petPose

\* the poses of the desired pose's table entry that the pet is capable of
CapablePoses(override_pose) ==
    SelectSeq(CLOSEST_POSES_IN_ORDER(Desired(override_pose)),
              LAMBDA p : Capable(validMask, p))

\* no pose is valid, or no appearance is on record for the first valid pose
NoValidAppearance(override_pose) ==
    \/ CapablePoses(override_pose) = <<>>
    \/ \A k \in 1..Len(appearances) :
          appearances[k].pose # CapablePoses(override_pose)[1]

\* C12: a render ends in MissingPetAppearance exactly when no pose is valid
\* for the desired pose or no appearance is on record for the first valid
\* pose, whatever appearances exist for later valid poses; it ends there with
\* no layer chosen, no fetch issued and the sink untouched, and takes no step
\* after that.
C12_MissingPetAppearance ==
    [][ /\ error # "MissingPetAppearance"
        /\ \A override_pose \in RenderOverrides :
              Render(override_pose) =>
                  IF NoValidAppearance(override_pose)
                  THEN /\ pc' = "failed"
                       /\ error' = "MissingPetAppearance"
                       /\ layers' = <<>>
                       /\ fetched' = <<>>
                       /\ arrived' = <<>>
                       /\ blended' = <<>>
                       /\ sink' = [written |-> FALSE, content |-> <<>>, seeks |-> 0]
                  ELSE /\ pc' = "gathering"
                       /\ error' = "none" ]_vars

\* the pet is capable of both happy poses and only the second valid pose has
\* an appearance, one with layers: the render failed all the same
C12_Witness ==
    /\ pc = "failed"
    /\ error = "MissingPetAppearance"
    /\ validMask = HAPPY_MASC + HAPPY_FEM
    /\ Len(appearances) = 1
    /\ appearances[1].pose = HAPPY_FEM
    /\ Len(appearances[1].layers) = 2
    /\ fetched = <<>>
    /\ ~sink.written

----------------------------------------------------------------------------
(* Neopet.fetch_assets_for: the items of the response, then the callers of   *)
(* Neopet._render_items and Neopet._render_layers                            *)

\* JSON null
Null == [null |-> TRUE]

\* an entry of data[key]: null for an item the service does not know, or an
\* item object whose appearanceOn is null or holds layers and restricted zones
ItemData(id) ==
    {Null}
        \cup {[id |-> id, appearanceOn |-> Null]}
        \cup {[id |-> id, appearanceOn |-> [zones |-> zs, restricted |-> rz]] :
                 zs \in SeqsUpTo(ZoneIds, MaxWornLayers), rz \in RestrictedLists}

Responses ==
    UNION {{d \in [1..n -> UNION {ItemData(k) : k \in 1..n}] :
              \A k \in 1..n : d[k] \in ItemData(k)} : n \in 0..MaxItems}

\* Item.__init__, lines 183-184: appearance_data and ItemAppearance(appearance_data)
ItemAppearanceOf(d) ==
    IF d.appearanceOn = Null THEN NoItemAppearance
    ELSE MkAppearance(d.id, d.appearanceOn.zones, d.appearanceOn.restricted)

\* line 283: [Item(**item) for item in data[key] if item is not None]
FetchedItems(data) == SelectSeq(data, LAMBDA d : d # Null)

InitAssets ==
    /\ \E data \in Responses :
          LET fetched_items == FetchedItems(data)
          IN  /\ items = [k \in 1..Len(fetched_items) |-> fetched_items[k].id]
              /\ appearance = [id \in {fetched_items[k].id : k \in 1..Len(fetched_items)} |->
                                  ItemAppearanceOf(
                                      fetched_items[CHOOSE k \in 1..Len(fetched_items) :
                                                       fetched_items[k].id = id])]
    /\ petPose = HAPPY_MASC
    /\ validMask = HAPPY_MASC
    /\ appearances \in {<<a>> : a \in {a \in PetAppearances(HAPPY_MASC) :
                                          a.restricted_zones = <<>>}}
    /\ pc = "ready"
    /\ result = <<>>
    /\ passes = 0
    /\ RenderIdle

\* a caller reads Neopet._render_items() of the fetched Neopet
TryRenderItems ==
    /\ pc = "ready"
    /\ result' = [error |-> RenderItemsError(items),
                  worn |-> IF RenderItemsError(items) = "none"
                           THEN RenderItems(items) ELSE <<>>]
    /\ pc' = "tried"
    /\ passes' = passes + 1
    /\ UNCHANGED <<neopetVars, renderVars>>

NextAssets == TryRenderItems \/ CallRenderLayers

SpecAssets == InitAssets /\ [][NextAssets]_vars

----------------------------------------------------------------------------
(* Properties of the fetched items *)

\* the items of the list that have an appearance
Dressed == SelectSeq(items, LAMBDA i : appearance[i] # NoItemAppearance)

\* C13 as stated: every fetched item has an appearance; _render_items and
\* _render_layers do not fail, and an item without an appearance counts as
\* absent: the items kept are those kept of the list without it, and every
\* layer returned belongs to the pet or to an item with an appearance.
C13_NoAppearanceItemIsAbsent ==
    pc \in {"tried", "ordered"} =>
        /\ result.error = "none"
        /\ result.worn = RenderItems(Dressed)
        /\ \A i \in ToSet(items) : appearance[i] # NoItemAppearance

\* what the code does with an item that has no appearance: reading
\* _render_items fails when the item is compared with another retained item,
\* and _render_layers fails also when the item is retained
C13_MissingAppearanceRaises ==
    /\ (pc = "tried" /\ Len(items) >= 2 /\ Dressed # items)
           => result.error = "AttributeError"
    /\ (pc = "ordered" /\ Dressed # items) => result.error = "AttributeError"
    /\ (pc \in {"tried", "ordered"} /\ Dressed = items) => result.error = "none"

\* two fetched items, the first without an appearance: _render_layers failed
C13_Witness ==
    /\ pc = "ordered"
    /\ Len(items) = 2
    /\ appearance[items[1]] = NoItemAppearance
    /\ appearance[items[2]] # NoItemAppearance
    /\ result.error = "AttributeError"

----------------------------------------------------------------------------
(* The retained items as _render_layers uses them *)

\* the layers of item s that neither the pet appearance nor s itself restricts
OwnVisibleLayers(s) ==
    {appearance[s].layers[k] : k \in
        {k \in 1..Len(appearance[s].layers) :
            appearance[s].layers[k].zone
                \notin ToSet(result.pet_appearance.restricted_zones) \cup Restricted(s)}}

\* C14: any two distinct items that _render_items retained are free of
\* conflict (neither occupies a zone the other occupies or restricts), and a
\* retained item's layer is left out of the layers _render_layers returns
\* only when the pet appearance or the item itself restricts its zone, never
\* because of another retained item.
C14_RetainedItemsConflictFree ==
    Ordered =>
        /\ \A s, t \in ToSet(result.worn) :
              s # t => Occupied(s) \cap (Occupied(t) \cup Restricted(t)) = {}
        /\ \A s \in ToSet(result.worn) : OwnVisibleLayers(s) \subseteq ToSet(result.layers)

\* of three items two are retained; the retained ones each restrict a zone,
\* and the layers of both are returned
C14_Witness ==
    /\ Ordered
    /\ items = <<1, 2, 3>>
    /\ Len(result.worn) = 2
    /\ \A s \in ToSet(result.worn) : Restricted(s) # {} /\ Occupied(s) # {}
    /\ ToSet(result.worn) \subseteq Owners(result.layers)

====
